---- MODULE Spec2Model ----
(***************************************************************************)
(* Tool registry and dispatcher of mcp_weather_server (server.py).         *)
(*                                                                         *)
(* The registry `tool_handlers` is a Python dict (insertion ordered); it   *)
(* is modelled as a sequence of <<key, handler>> pairs with unique keys.   *)
(* `proc` is the activation of MCPServerProcess.start (tests/conftest.py),  *)
(* the coroutine that launches the server and waits for it to answer.      *)
(* Text is modelled as a sequence of string segments, so that an f-string  *)
(* is the concatenation of its literal and interpolated parts.             *)
(* Every suspended call_tool coroutine has its own frame calls[c]; the     *)
(* outcome a coroutine ends with is handed to the transport in `last`.     *)
(***************************************************************************)
EXTENDS Integers, Sequences, FiniteSets, TLC

VARIABLES tool_handlers, started, addHistory, nAdds, calls, requests, last, proc

vars == <<tool_handlers, started, addHistory, nAdds, calls, requests, last, proc>>

\* the state of server.py
server == <<tool_handlers, started, addHistory, nAdds, calls, requests, last>>

(* ---------------------------- bounds ----------------------------------- *)

\* number of call_tool coroutines that may be suspended at once
MaxCalls == 2

\* number of direct add_tool_handler calls made before main() runs
MaxAdds == 1

CallIds == 1..MaxCalls

(* ------------------------ handlers (tools package) --------------------- *)

Handler(name, cls) == [name |-> name, cls |-> cls]

\* get_tool_handler's "not found" value
None == [name |-> "<None>", cls |-> "NoneType"]

\* the six handlers register_all_tools instantiates, in source order
BuiltinHandlers ==
    << Handler("get_current_weather", "GetCurrentWeatherToolHandler"),
       Handler("get_weather_by_date_range", "GetWeatherByDateRangeToolHandler"),
       Handler("get_weather_details", "GetWeatherDetailsToolHandler"),
       Handler("get_current_datetime", "GetCurrentDateTimeToolHandler"),
       Handler("get_timezone_info", "GetTimeZoneInfoToolHandler"),
       Handler("convert_time", "ConvertTimeToolHandler") >>

\* handlers a caller of add_tool_handler may pass before main() runs: one
\* under a name of its own, and one declaring the name of a builtin
ExtraHandlers ==
    { Handler("echo", "EchoToolHandler"),
      Handler("get_weather_details", "CachedWeatherDetailsToolHandler") }

\* tool names a client may ask for
ToolNames == {"get_weather_details", "echo", "no_such_tool"}

\* argument values a client may send: two mappings and a non-mapping
EmptyDict == [type |-> "dict", items |-> <<>>]
CityDict  == [type |-> "dict", items |-> << <<"city", "Paris">> >>]
NoneArg   == [type |-> "NoneType", items |-> <<>>]
ArgValues == {EmptyDict, CityDict, NoneArg}

\* how the upstream behaves while a handler is suspended
Upstreams == {"ok", "error"}

(* ------------------------------ content -------------------------------- *)

TextContent(text) == [type |-> "text", text |-> text]

Exception(cls, msg) == [cls |-> cls, msg |-> msg]

NoException == Exception("<none>", <<>>)

\* asyncio.CancelledError derives from BaseException, not from Exception
CancelledError == Exception("CancelledError", <<>>)

\* variant: "except BaseException" also catches a cancellation
IsExceptionOrCancelled(e) == e.cls # "<none>"

\* isinstance(e, Exception): what "except Exception" catches
IsException(e) == e.cls \notin {"<none>", "CancelledError"}

\* ToolHandler.get_tool_description: Tool(name=self.name, ...)
get_tool_description(h) == [name |-> h.name, description |-> h.cls]

\* handlers whose execution needs the "city" argument
RequiresCity(h) ==
    h.cls \in {"GetCurrentWeatherToolHandler", "GetWeatherByDateRangeToolHandler",
               "GetWeatherDetailsToolHandler", "CachedWeatherDetailsToolHandler"}

HasItem(arguments, k) == \E i \in 1..Len(arguments.items) : arguments.items[i][1] = k

\* ToolHandler.run_tool: the completion of one execution, a function of the
\* handler, its arguments and the upstream's behaviour
run_tool(h, arguments, upstream) ==
    IF RequiresCity(h) /\ ~HasItem(arguments, "city")
    THEN [ok |-> FALSE, result |-> <<>>,
          exc |-> Exception("RuntimeError", <<"Missing required arguments: ", "city">>)]
    ELSE IF upstream = "error"
    THEN [ok |-> FALSE, result |-> <<>>,
          exc |-> Exception("RuntimeError", <<"Upstream request failed in ", h.cls>>)]
    ELSE IF h.cls = "EchoToolHandler"
    THEN [ok |-> TRUE, exc |-> NoException,
          result |-> << TextContent(<<h.cls>>), TextContent(arguments.items) >>]
    ELSE [ok |-> TRUE, exc |-> NoException,
          result |-> << TextContent(<<h.cls>> \o arguments.items) >>]

(* --------------------------- the dict ---------------------------------- *)

Keys(d) == {d[i][1] : i \in 1..Len(d)}

\* dict.get(name): the value stored under name, or None
DictGet(d, k) ==
    IF k \in Keys(d) THEN d[CHOOSE i \in 1..Len(d) : d[i][1] = k][2] ELSE None

\* variant: d.pop(k, None); d[k] = v moves a replaced key to the end
DictSetMoveToEnd(d, k, v) ==
    Append(SelectSeq(d, LAMBDA e : e[1] # k), <<k, v>>)

\* d[k] = v: replaces the value in place when k is present, else appends
DictSet(d, k, v) ==
    IF k \in Keys(d)
    THEN [i \in 1..Len(d) |-> IF d[i][1] = k THEN <<k, v>> ELSE d[i]]
    ELSE Append(d, <<k, v>>)

\* dict.values(), in insertion order
DictValues(d) == [i \in 1..Len(d) |-> d[i][2]]

(* ---------------------------- registry --------------------------------- *)

\* variant: tool_handlers.setdefault(name, handler) keeps the first handler
add_tool_handler_keep_first(d, h) ==
    IF h.name \in Keys(d) THEN d ELSE Append(d, <<h.name, h>>)

\* variant: the registry is keyed by the handler's class name
add_tool_handler_by_class(d, h) == DictSet(d, h.cls, h)

\* add_tool_handler's effect on the registry
add_tool_handler(d, h) == DictSet(d, h.name, h)

\* variant: an unknown name falls back to the first registered handler
get_tool_handler_fallback(name) ==
    IF name \in Keys(tool_handlers) \/ tool_handlers = <<>>
    THEN DictGet(tool_handlers, name)
    ELSE tool_handlers[1][2]

get_tool_handler(name) == DictGet(tool_handlers, name)

RECURSIVE AddAll(_, _)
AddAll(d, hs) ==
    IF hs = <<>> THEN d ELSE AddAll(add_tool_handler(d, Head(hs)), Tail(hs))

\* the entry add_tool_handler leaves in the call history: it never raises
AddRecord(h) == [handler |-> h, raised |-> FALSE]

(* ------------------------------ frames --------------------------------- *)

IdleFrame ==
    [pc |-> "idle", op |-> "-", name |-> "-", arguments |-> NoneArg,
     tool_handler |-> None, invoked |-> <<>>, result |-> <<>>, exc |-> NoException]

\* isinstance(arguments, dict)
IsDict(arguments) == arguments.type = "dict"

\* the except clause of call_tool: the error is returned as text content
ErrorContent(name, e) ==
    << TextContent(<<"Error executing tool '", name, "': ">> \o e.msg) >>

\* an exception leaves the coroutine
Propagate(f, e) == [f EXCEPT !.pc = "raised", !.exc = e]

\* variant: the except clause logs and re-raises, as list_tools does
OnExceptionReraise(f, e) == Propagate(f, e)

\* variant: a failed execution is started once more before it is reported
OnExceptionRetry(f, e) ==
    IF IsException(e) /\ f.pc = "awaiting" /\ Len(f.invoked) < 2
    THEN [f EXCEPT !.invoked = Append(f.invoked, f.tool_handler)]
    ELSE IF IsException(e)
    THEN [f EXCEPT !.pc = "returned", !.exc = e, !.result = ErrorContent(f.name, e)]
    ELSE Propagate(f, e)

\* "except Exception as e" of call_tool applied to a frame in which e was raised
OnException(f, e) ==
    IF IsException(e)
    THEN [f EXCEPT !.pc = "returned", !.exc = e, !.result = ErrorContent(f.name, e)]
    ELSE Propagate(f, e)

\* variant: the handler is looked up before the arguments are validated
CallToolEnterLookupFirst(name, arguments) ==
    LET f == [IdleFrame EXCEPT !.op = "call_tool", !.name = name,
                               !.arguments = arguments]
        h == get_tool_handler(name)
    IN  IF h = None
        THEN OnException([f EXCEPT !.tool_handler = h],
                         Exception("ValueError", <<"Unknown tool: ", name>>))
        ELSE IF ~IsDict(arguments)
        THEN OnException([f EXCEPT !.tool_handler = h],
                         Exception("RuntimeError", <<"Arguments must be a dictionary">>))
        ELSE [f EXCEPT !.tool_handler = h, !.pc = "awaiting",
                       !.invoked = Append(f.invoked, h)]

\* call_tool up to its await: validation, lookup, start of run_tool
CallToolEnter(name, arguments) ==
    LET f == [IdleFrame EXCEPT !.op = "call_tool", !.name = name,
                               !.arguments = arguments]
    IN  IF ~IsDict(arguments)
        THEN OnException(f, Exception("RuntimeError", <<"Arguments must be a dictionary">>))
        ELSE LET h == get_tool_handler(name)
             IN  IF h = None
                 THEN OnException([f EXCEPT !.tool_handler = h],
                                  Exception("ValueError", <<"Unknown tool: ", name>>))
                 ELSE [f EXCEPT !.tool_handler = h, !.pc = "awaiting",
                                !.invoked = Append(f.invoked, h)]

\* variant: only the first content of the handler's result is returned
CallToolResumeFirstOnly(f, completion) ==
    IF completion.ok
    THEN [f EXCEPT !.pc = "returned", !.result = SubSeq(completion.result, 1, 1)]
    ELSE OnException(f, completion.exc)

\* variant: the contents are collected in a module-level list that is not
\* cleared between calls
CallToolResumeAccumulating(f, completion) ==
    IF completion.ok
    THEN [f EXCEPT !.pc = "returned",
            !.result = (IF last.frame.op = "call_tool" /\ last.frame.pc = "returned"
                           /\ last.frame.exc = NoException /\ Len(last.frame.result) <= 2
                        THEN last.frame.result ELSE <<>>) \o completion.result]
    ELSE OnException(f, completion.exc)

\* call_tool from the completion of run_tool to its return
CallToolResume(f, completion) ==
    IF completion.ok
    THEN [f EXCEPT !.pc = "returned", !.result = completion.result]
    ELSE OnException(f, completion.exc)

\* variant: name, arguments and handler are kept in module globals, so a
\* resumed coroutine continues with those of another suspended call
FrameShared(c) == calls[CHOOSE d \in CallIds : calls[d].pc = "awaiting"]

\* the frame a resumed coroutine continues in: its own
Frame(c) == calls[c]

\* variant: a failure while the descriptors are built yields an empty list
ListToolsFrameSwallow(fails) ==
    IF fails
    THEN [IdleFrame EXCEPT !.op = "list_tools", !.pc = "returned",
              !.exc = Exception("RuntimeError", <<"get_tool_description failed">>)]
    ELSE [IdleFrame EXCEPT !.op = "list_tools", !.pc = "returned",
              !.result = [i \in 1..Len(tool_handlers) |->
                             get_tool_description(DictValues(tool_handlers)[i])]]

\* list_tools: the descriptors of the registry's values, or the failure of a
\* get_tool_description re-raised
ListToolsFrame(fails) ==
    IF fails
    THEN Propagate([IdleFrame EXCEPT !.op = "list_tools"],
                   Exception("RuntimeError", <<"get_tool_description failed">>))
    ELSE [IdleFrame EXCEPT !.op = "list_tools", !.pc = "returned",
              !.result = [i \in 1..Len(tool_handlers) |->
                             get_tool_description(DictValues(tool_handlers)[i])]]

\* what the transport asked of coroutine c, the handler the registry held
\* under the requested name at that moment, and (once the handler has
\* completed) how the upstream behaved for it
Request(op, name, arguments) ==
    [op |-> op, name |-> name, arguments |-> arguments,
     registered |-> IF op = "call_tool" THEN DictGet(tool_handlers, name) ELSE None,
     upstream |-> "-"]

NoRequest ==
    [op |-> "-", name |-> "-", arguments |-> NoneArg, registered |-> None,
     upstream |-> "-"]

\* the outcome of a coroutine that has ended, as the transport receives it:
\* the request, the final frame, whether a call_tool coroutine other than c
\* was suspended at that moment, and whether the request is the same (with
\* the same registry entry and upstream behaviour) as that of the outcome
\* received before
Response(req, f, c) ==
    [req |-> req, frame |-> f,
     overlapped |-> \E d \in CallIds \ {c} : calls[d].pc = "awaiting",
     repeat |-> req = last.req]

NoResponse ==
    [req |-> NoRequest, frame |-> IdleFrame, overlapped |-> FALSE, repeat |-> FALSE]

\* the transport runs a new call_tool in the first coroutine slot that is free
FreeSlot(c) ==
    /\ calls[c].pc = "idle"
    /\ \A d \in CallIds : d < c => calls[d].pc # "idle"

\* coroutine c, run for request req, has reached frame f: it stays in its
\* slot while it is suspended and hands its outcome over when it ends
Settle(c, req, f) ==
    IF f.pc = "awaiting"
    THEN /\ calls' = [calls EXCEPT ![c] = f]
         /\ requests' = [requests EXCEPT ![c] = req]
         /\ UNCHANGED last
    ELSE /\ calls' = [calls EXCEPT ![c] = IdleFrame]
         /\ requests' = [requests EXCEPT ![c] = NoRequest]
         /\ last' = Response(req, f, c)

(* ---------------------- MCPServerProcess.start ------------------------- *)

\* max_retries = 30
max_retries == 30

\* what one GET of /health ends with: a response with status 200, a
\* response with another status, or an httpx.RequestError (which includes
\* the timeout of the client)
PollOutcomes == {"200", "503", "RequestError"}

FailedToStart == Exception("RuntimeError", <<"MCP server failed to start">>)

\* start() before its first statement; polls counts the GETs made
NotStarted == [pc |-> "init", polls |-> 0, response |-> "-", exc |-> NoException]

\* subprocess.Popen([...]): the process is launched, or OSError is raised
Launch(p, launched) ==
    IF launched
    THEN [p EXCEPT !.pc = "poll"]
    ELSE [p EXCEPT !.pc = "raised", !.exc = Exception("OSError", <<>>)]

\* variant: the GET is not inside a try, so a request error leaves start()
PollStepUncaught(p, outcome) ==
    LET q == [p EXCEPT !.polls = p.polls + 1, !.response = outcome]
    IN  IF outcome = "200" THEN [q EXCEPT !.pc = "returned"]
        ELSE IF outcome = "RequestError"
        THEN [q EXCEPT !.pc = "raised", !.exc = Exception("RequestError", <<>>)]
        ELSE [q EXCEPT !.pc = "sleep"]

\* one iteration of the loop up to its sleep: status 200 breaks out of the
\* loop and start() returns; any other status, and a request error caught
\* by the except clause, go on to asyncio.sleep(0.1)
PollStep(p, outcome) ==
    LET q == [p EXCEPT !.polls = p.polls + 1, !.response = outcome]
    IN  IF outcome = "200" THEN [q EXCEPT !.pc = "returned"]
        ELSE [q EXCEPT !.pc = "sleep"]

\* the sleep is over: the next iteration of range(max_retries), or the else
\* clause of the loop when the range is exhausted
SleepStep(p) ==
    IF p.polls < max_retries
    THEN [p EXCEPT !.pc = "poll"]
    ELSE [p EXCEPT !.pc = "raised", !.exc = FailedToStart]

(* ------------------------------ actions -------------------------------- *)

\* variant: the handlers are registered when the module is imported
InitRegistered ==
    /\ tool_handlers = AddAll(<<>>, BuiltinHandlers)
    /\ started = FALSE
    /\ addHistory = <<>>
    /\ nAdds = 0
    /\ calls = [c \in CallIds |-> IdleFrame]
    /\ requests = [c \in CallIds |-> NoRequest]
    /\ last = NoResponse
    /\ proc = NotStarted

Init ==
    /\ tool_handlers = <<>>
    /\ started = FALSE
    /\ addHistory = <<>>
    /\ nAdds = 0
    /\ calls = [c \in CallIds |-> IdleFrame]
    /\ requests = [c \in CallIds |-> NoRequest]
    /\ last = NoResponse
    /\ proc = NotStarted

\* a direct call of add_tool_handler, before main() runs
AddToolHandler(h) ==
    /\ ~started
    /\ nAdds < MaxAdds
    /\ tool_handlers' = add_tool_handler(tool_handlers, h)
    /\ addHistory' = Append(addHistory, AddRecord(h))
    /\ nAdds' = nAdds + 1
    /\ UNCHANGED <<started, calls, requests, last, proc>>

\* main(): register_all_tools(), then the server loop starts
RegisterAllTools ==
    /\ ~started
    /\ tool_handlers' = AddAll(tool_handlers, BuiltinHandlers)
    /\ addHistory' = addHistory \o [i \in 1..Len(BuiltinHandlers) |-> AddRecord(BuiltinHandlers[i])]
    /\ started' = TRUE
    /\ UNCHANGED <<nAdds, calls, requests, last, proc>>

\* variant: the lookup caches a miss in the registry
CallToolStartCaching(c, name, arguments) ==
    /\ FreeSlot(c)
    /\ Settle(c, Request("call_tool", name, arguments), CallToolEnter(name, arguments))
    /\ tool_handlers' = IF IsDict(arguments) /\ name \notin Keys(tool_handlers)
                        THEN Append(tool_handlers, <<name, None>>)
                        ELSE tool_handlers
    /\ UNCHANGED <<started, addHistory, nAdds, proc>>

\* call_tool(name, arguments) runs up to its await, or to its return
CallToolStart(c, name, arguments) ==
    /\ FreeSlot(c)
    /\ Settle(c, Request("call_tool", name, arguments), CallToolEnter(name, arguments))
    /\ UNCHANGED <<tool_handlers, started, addHistory, nAdds, proc>>

\* run_tool completes and call_tool runs to its return
HandlerComplete(c, upstream) ==
    /\ calls[c].pc = "awaiting"
    /\ Settle(c, [requests[c] EXCEPT !.upstream = upstream],
              CallToolResume(Frame(c),
                  run_tool(Frame(c).tool_handler, Frame(c).arguments, upstream)))
    /\ UNCHANGED <<tool_handlers, started, addHistory, nAdds, proc>>

\* the transport cancels the request while call_tool awaits run_tool:
\* CancelledError is raised at the await
Cancel(c) ==
    /\ calls[c].pc = "awaiting"
    /\ Settle(c, requests[c], OnException(Frame(c), CancelledError))
    /\ UNCHANGED <<tool_handlers, started, addHistory, nAdds, proc>>

\* list_tools() has no await: it runs to its end in one step; a
\* get_tool_description can only fail when there is a handler to describe
ListTools(fails) ==
    /\ fails => tool_handlers # <<>>
    /\ last' = [req |-> Request("list_tools", "-", NoneArg),
                frame |-> ListToolsFrame(fails),
                overlapped |-> \E d \in CallIds : calls[d].pc = "awaiting",
                repeat |-> last.req = Request("list_tools", "-", NoneArg)]
    /\ UNCHANGED <<tool_handlers, started, addHistory, nAdds, calls, requests, proc>>

Next ==
    \/ \E h \in ExtraHandlers : AddToolHandler(h)
    \/ RegisterAllTools
    \/ \E c \in CallIds, name \in ToolNames, arguments \in ArgValues :
          CallToolStart(c, name, arguments)
    \/ \E c \in CallIds, upstream \in Upstreams : HandlerComplete(c, upstream)
    \/ \E c \in CallIds : Cancel(c)
    \/ \E fails \in BOOLEAN : ListTools(fails)

Spec == Init /\ [][Next]_vars

\* the program by itself: nothing outside server.py calls add_tool_handler,
\* whose only call sites are in register_all_tools
NextMain ==
    \/ RegisterAllTools
    \/ \E c \in CallIds, name \in ToolNames, arguments \in ArgValues :
          CallToolStart(c, name, arguments)
    \/ \E c \in CallIds, upstream \in Upstreams : HandlerComplete(c, upstream)
    \/ \E c \in CallIds : Cancel(c)
    \/ \E fails \in BOOLEAN : ListTools(fails)

SpecMain == Init /\ [][NextMain]_vars

\* start() launches the server process
Popen(launched) ==
    /\ proc.pc = "init"
    /\ proc' = Launch(proc, launched)
    /\ UNCHANGED server

\* start() polls the health endpoint once
Poll(outcome) ==
    /\ proc.pc = "poll"
    /\ proc' = PollStep(proc, outcome)
    /\ UNCHANGED server

\* start() wakes up from asyncio.sleep(0.1)
Sleep ==
    /\ proc.pc = "sleep"
    /\ proc' = SleepStep(proc)
    /\ UNCHANGED server

NextStart ==
    \/ \E launched \in BOOLEAN : Popen(launched)
    \/ \E outcome \in PollOutcomes : Poll(outcome)
    \/ Sleep

\* the event loop keeps running start(): Popen returns, a GET ends within
\* the client's timeout, and the sleep ends
SpecStart == Init /\ [][NextStart]_vars /\ WF_vars(NextStart)

TypeOK ==
    /\ started \in BOOLEAN
    /\ nAdds \in 0..MaxAdds
    /\ \A c \in CallIds : calls[c].pc \in {"idle", "awaiting"}
    /\ last.frame.pc \in {"idle", "returned", "raised"}

(* ------------------------- auxiliary notions --------------------------- *)

Contains(text, seg) == \E i \in 1..Len(text) : text[i] = seg

\* the last outcome is that of a call_tool, of a list_tools
LastIsCall == last.req.op = "call_tool"
LastIsList == last.req.op = "list_tools"

\* the last outcome is that of a call_tool that was suspended in a handler
LastRanHandler == LastIsCall /\ Len(last.frame.invoked) = 1

\* the text content the error path is specified to return
ErrorText(name, msg) ==
    << [type |-> "text", text |-> <<"Error executing tool '", name, "': ">> \o msg] >>

\* names in a registration history, and the k-th smallest element of a set
HistName(hist, i) == hist[i].handler.name
HistNames(hist) == {HistName(hist, i) : i \in 1..Len(hist)}
FirstIdx(hist) == {i \in 1..Len(hist) : \A j \in 1..(i-1) : HistName(hist, j) # HistName(hist, i)}
LastIdx(hist) == {i \in 1..Len(hist) : \A j \in (i+1)..Len(hist) : HistName(hist, j) # HistName(hist, i)}
Nth(S, k) == CHOOSE i \in S : Cardinality({j \in S : j < i}) = k - 1
LastHandler(hist, name) ==
    hist[CHOOSE i \in LastIdx(hist) : HistName(hist, i) = name].handler
FirstHandler(hist, name) ==
    hist[CHOOSE i \in FirstIdx(hist) : HistName(hist, i) = name].handler

\* call_tool run on its own: from the request, the handler registered under
\* its name when it was made, and the upstream's behaviour
CallToolAlone(r, upstream) ==
    IF r.arguments.type # "dict"
    THEN ErrorText(r.name, <<"Arguments must be a dictionary">>)
    ELSE IF r.registered = None
    THEN ErrorText(r.name, <<"Unknown tool: ", r.name>>)
    ELSE LET done == run_tool(r.registered, r.arguments, upstream)
         IN  IF done.ok THEN done.result ELSE ErrorText(r.name, done.exc.msg)

(* ------------------------------- C1 ------------------------------------ *)

C2_UnknownTool ==
    [][ /\ \A c \in CallIds :
              ( /\ calls'[c].pc = "awaiting" /\ calls[c].pc = "idle"
                /\ requests'[c].arguments = EmptyDict ) =>
                  requests'[c].name \in Keys(tool_handlers)
        /\ ( /\ last' # last
             /\ last'.req.op = "call_tool"
             /\ last'.req.arguments = EmptyDict
             /\ last'.req.name \notin Keys(tool_handlers) ) =>
               /\ last'.frame.pc = "returned"
               /\ last'.frame.invoked = <<>>
               /\ Len(last'.frame.result) = 1
               /\ last'.frame.result[1].type = "text"
               /\ Contains(last'.frame.result[1].text, last'.req.name)
               /\ Contains(last'.frame.result[1].text, "Unknown tool: ") ]_vars

\* an unknown name was asked for while the registry holds the builtin handlers
C2_Witness ==
    /\ LastIsCall /\ last.req.arguments = EmptyDict
    /\ last.req.name = "no_such_tool"
    /\ last.frame.pc = "returned"
    /\ Contains(last.frame.result[1].text, "Unknown tool: ")
    /\ Len(tool_handlers) >= 6

(* ------------------------------- C3 ------------------------------------ *)

\* C3 as stated: registering a handler whose name is already a key signals a
\* configuration error and does not insert it; the handler registered first
\* under the name stays.
C3_DuplicateRejected ==
    /\ \A i \in 1..Len(addHistory) : (i \notin FirstIdx(addHistory)) => addHistory[i].raised
    /\ \A name \in HistNames(addHistory) :
          DictGet(tool_handlers, name) = FirstHandler(addHistory, name)

\* C3 amended: registering a handler whose name is already a key signals
\* nothing and replaces the entry in place: the registry then holds the
\* handler registered last under that name, and the existing keys keep their
\* number and their positions.
C3_DuplicateReplaces ==
    [][ addHistory' # addHistory =>
          /\ \A i \in 1..Len(addHistory') : ~addHistory'[i].raised
          /\ Keys(tool_handlers') = HistNames(addHistory')
          /\ Len(tool_handlers') = Cardinality(HistNames(addHistory'))
          /\ \A name \in HistNames(addHistory') :
                DictGet(tool_handlers', name) = LastHandler(addHistory', name)
          /\ \A i \in 1..Len(tool_handlers) : tool_handlers'[i][1] = tool_handlers[i][1] ]_vars

\* a handler was registered under a name that a different handler held
C3_Witness ==
    /\ Len(addHistory) >= 2
    /\ addHistory[1].handler.cls = "CachedWeatherDetailsToolHandler"
    /\ tool_handlers[1] = <<"get_weather_details",
                            Handler("get_weather_details", "GetWeatherDetailsToolHandler")>>

(* ------------------------------- C4 ------------------------------------ *)

\* a list_tools call returns in this step
ListReturns ==
    last' # last /\ last'.req.op = "list_tools" /\ last'.frame.pc = "returned"

\* C4 as stated: list_tools returns one descriptor per registered handler, in
\* the order in which the handlers (those the registry holds) were registered.
C4_ListInRegistrationOrder ==
    [][ ListReturns =>
          /\ Len(last'.frame.result) = Cardinality(LastIdx(addHistory))
          /\ \A k \in 1..Cardinality(LastIdx(addHistory)) :
                /\ k <= Len(last'.frame.result)
                /\ last'.frame.result[k].name = HistName(addHistory, Nth(LastIdx(addHistory), k))
                /\ last'.frame.result[k].description =
                       addHistory[Nth(LastIdx(addHistory), k)].handler.cls ]_vars

\* C4 amended: list_tools returns exactly one descriptor per registry entry,
\* with pairwise distinct names each equal to the declared name of the
\* handler last registered under it, in the order in which the names were
\* first registered.
C4_ListInFirstRegistrationOrder ==
    [][ ListReturns =>
          /\ Len(last'.frame.result) = Cardinality(FirstIdx(addHistory))
          /\ \A k \in 1..Len(last'.frame.result) :
                LET name == HistName(addHistory, Nth(FirstIdx(addHistory), k))
                IN  /\ last'.frame.result[k].name = name
                    /\ LastHandler(addHistory, name).name = name
                    /\ last'.frame.result[k].description = LastHandler(addHistory, name).cls
          /\ \A j, k \in 1..Len(last'.frame.result) :
                j # k => last'.frame.result[j].name # last'.frame.result[k].name ]_vars

\* a listing of a registry in which the name registered first was registered
\* again after other names
C4_Witness ==
    /\ LastIsList /\ last.frame.pc = "returned"
    /\ Len(last.frame.result) >= 6
    /\ last.frame.result[1] = [name |-> "get_weather_details",
                               description |-> "GetWeatherDetailsToolHandler"]
    /\ last.frame.result[2].name = "get_current_weather"
    /\ addHistory[1].handler.cls = "CachedWeatherDetailsToolHandler"

(* ------------------------------- C5 ------------------------------------ *)

\* C5: arguments that are not a mapping are rejected before the handler
\* lookup: no handler is looked up or invoked and the error Content reports
\* the invalid arguments, also when the name is not registered.
C5_ArgumentsCheckedFirst ==
    /\ \A c \in CallIds : calls[c].pc = "awaiting" => requests[c].arguments.type = "dict"
    /\ (LastIsCall /\ last.req.arguments.type # "dict") =>
          /\ last.frame.pc = "returned"
          /\ last.frame.invoked = <<>>
          /\ last.frame.tool_handler = None
          /\ last.frame.result =
                ErrorText(last.req.name, <<"Arguments must be a dictionary">>)

\* an unregistered name was called with a non-mapping
C5_Witness ==
    /\ LastIsCall /\ last.req.arguments = NoneArg
    /\ last.req.name \notin Keys(tool_handlers)
    /\ tool_handlers # <<>>
    /\ last.frame.pc = "returned"

(* ------------------------------- C6 ------------------------------------ *)

\* C6: with mapping arguments, a registered name and a handler execution
\* that completes without failure, call_tool returns exactly the Content
\* sequence the handler produced.
C6_SuccessReturnsHandlerResult ==
    (LastIsCall /\ last.frame.pc = "returned" /\ last.frame.exc = NoException) =>
        /\ last.req.arguments.type = "dict"
        /\ last.req.registered # None
        /\ run_tool(last.req.registered, last.req.arguments, "ok").ok
        /\ last.frame.result = run_tool(last.req.registered, last.req.arguments, "ok").result

\* a handler's result of two contents was returned
C6_Witness ==
    /\ LastRanHandler /\ last.frame.pc = "returned" /\ last.frame.exc = NoException
    /\ last.req.arguments = CityDict
    /\ Len(last.frame.result) = 2

(* ------------------------------- C7 ------------------------------------ *)

\* the handler executions a frame has started are at most one, of the
\* handler registered under the requested name
OneInvocation(req, f) ==
    /\ Len(f.invoked) <= 1
    /\ \A i \in 1..Len(f.invoked) :
          f.invoked[i] = req.registered /\ f.invoked[i].name = req.name

\* C7: a call_tool invocation starts the execution of at most one handler,
\* the one registered under the requested name, at most once; a failed
\* execution is not started again.
C7_AtMostOneInvocation ==
    /\ \A c \in CallIds : OneInvocation(requests[c], calls[c])
    /\ LastIsCall => OneInvocation(last.req, last.frame)

\* a handler's execution failed and the error was returned
C7_Witness ==
    /\ LastRanHandler /\ last.frame.pc = "returned"
    /\ last.frame.exc.cls = "RuntimeError"
    /\ Len(tool_handlers) >= 2

(* ------------------------------- C8 ------------------------------------ *)

\* C8: once register_all_tools has finished, no call_tool and no list_tools
\* step, successful or failing, adds, removes or replaces a registry entry.
C8_RegistryReadOnly ==
    [][ (started /\ (calls' # calls \/ last' # last)) =>
            tool_handlers' = tool_handlers ]_vars

\* after startup, a call of a builtin handler has failed while another call
\* is still suspended
C8_Witness ==
    /\ started
    /\ LastRanHandler /\ last.frame.pc = "returned"
    /\ IsException(last.frame.exc)
    /\ last.frame.tool_handler.cls = "GetWeatherDetailsToolHandler"
    /\ last.overlapped

(* ------------------------------- C9 ------------------------------------ *)

\* C9 as stated: no failure leaves either entry point: a failure in
\* list_tools, like one in call_tool, is caught and not propagated.
C9_NoFailureEscapes ==
    ~(last.frame.pc = "raised" /\ IsException(last.frame.exc))

\* C9 amended: a failure raised during call_tool is caught and not
\* propagated to the caller; a failure raised while list_tools builds the
\* descriptors is re-raised to the caller, which gets no descriptor list.
C9_OnlyListToolsFailureEscapes ==
    /\ (LastIsCall /\ IsException(last.frame.exc)) => last.frame.pc = "returned"
    /\ (LastIsCall /\ last.frame.pc = "raised") => ~IsException(last.frame.exc)
    /\ (LastIsList /\ IsException(last.frame.exc)) =>
          (last.frame.pc = "raised" /\ last.frame.result = <<>>)

\* list_tools has failed after startup
C9_Witness ==
    /\ started
    /\ LastIsList /\ last.frame.pc = "raised" /\ IsException(last.frame.exc)

(* ------------------------------- C10 ----------------------------------- *)

\* what a call_tool coroutine works on is what was requested of it
OwnRequest(req, f) == f.name = req.name /\ f.arguments = req.arguments

\* every suspended call works on its own request, and a call that has
\* returned has returned what it returns when run alone
OwnResults ==
    /\ \A c \in CallIds : calls[c].pc = "awaiting" => OwnRequest(requests[c], calls[c])
    /\ (LastIsCall /\ last.frame.pc = "returned") =>
          /\ OwnRequest(last.req, last.frame)
          /\ \E upstream \in Upstreams :
                last.frame.result = CallToolAlone(last.req, upstream)
          /\ IsException(last.frame.exc) => last.frame.result[1].text[2] = last.req.name

\* C10: call_tool invocations suspended in their handlers at the same time
\* do not interfere: each returns the result for its own name and arguments,
\* the one it returns when run alone, an error Content names the tool of its
\* own call, and a step of one invocation leaves the others as they are.
C10_NoInterference ==
    [][ /\ OwnResults'
        /\ \A c, d \in CallIds :
              (c # d /\ calls'[c] # calls[c]) =>
                  (calls'[d] = calls[d] /\ requests'[d] = requests[d]) ]_vars

\* a call has failed in its handler while a call of another tool with other
\* arguments was suspended in its handler
C10_Witness ==
    /\ LastRanHandler /\ last.frame.pc = "returned"
    /\ IsException(last.frame.exc)
    /\ last.overlapped
    /\ \E d \in CallIds :
          /\ calls[d].pc = "awaiting"
          /\ requests[d].name # last.req.name
          /\ requests[d].arguments # last.req.arguments

(* ------------------------------- C11 ----------------------------------- *)

\* the last outcome is that of a call_tool cancelled at its await
LastWasCancelled == LastIsCall /\ last.frame.exc.cls = "CancelledError"

\* C11: a call_tool cancelled while it awaits its handler delivers no
\* Content: the cancellation leaves the coroutine, which returns neither the
\* handler's result nor an error Content, and its slot holds nothing that
\* could be delivered later.
C11_CancelledDeliversNothing ==
    /\ LastWasCancelled =>
          /\ last.frame.pc = "raised"
          /\ last.frame.result = <<>>
    /\ \A c \in CallIds : calls[c].exc.cls # "CancelledError" /\ calls[c].result = <<>>

\* a call of a builtin handler was cancelled while it was suspended
C11_Witness ==
    /\ LastWasCancelled
    /\ LastRanHandler
    /\ last.frame.tool_handler.cls = "GetWeatherDetailsToolHandler"
    /\ last.req.arguments = CityDict

(* ------------------------------- C13 ----------------------------------- *)

\* C13: every registry entry maps a key to a handler whose declared name is
\* that key, so get_tool_handler(n) is None or a handler named n, and no
\* call_tool executes a handler declared under another name.
C13_KeysAreDeclaredNames ==
    /\ \A i \in 1..Len(tool_handlers) : tool_handlers[i][2].name = tool_handlers[i][1]
    /\ \A n \in ToolNames : get_tool_handler(n) = None \/ get_tool_handler(n).name = n
    /\ \A c \in CallIds : \A i \in 1..Len(calls[c].invoked) :
          calls[c].invoked[i].name = requests[c].name
    /\ LastIsCall => \A i \in 1..Len(last.frame.invoked) :
          last.frame.invoked[i].name = last.req.name

\* a handler registered by a direct add_tool_handler call is executing while
\* the registry also holds the builtin handlers
C13_Witness ==
    /\ Len(tool_handlers) = 7
    /\ \E c \in CallIds :
          /\ calls[c].pc = "awaiting"
          /\ calls[c].invoked = << Handler("echo", "EchoToolHandler") >>

(* ------------------------------- C12 ----------------------------------- *)

C14_EmptyUntilMain ==
    /\ [][tool_handlers' # tool_handlers => ~started /\ started']_vars
    /\ [](~started =>
            /\ tool_handlers = <<>>
            /\ \A c \in CallIds : calls[c].pc = "idle" /\ calls[c].invoked = <<>>
            /\ LastIsList => /\ last.frame.pc = "returned"
                             /\ last.frame.result = <<>>
            /\ (LastIsCall /\ last.req.arguments.type = "dict") =>
                  /\ last.frame.pc = "returned"
                  /\ last.frame.result =
                        ErrorText(last.req.name, <<"Unknown tool: ", last.req.name>>)
                  /\ last.frame.invoked = <<>>)

\* a builtin tool was called with mapping arguments before main has run
C14_Witness ==
    /\ ~started
    /\ LastIsCall
    /\ last.req.name = "get_weather_details"
    /\ last.req.arguments = CityDict
    /\ last.frame.pc = "returned"

(* ------------------------------- C15 ----------------------------------- *)

ProcEnded == proc.pc \in {"returned", "raised"}

\* C15: start() terminates; it polls the health endpoint at most 30 times,
\* returns as soon as a poll answers 200, goes on to the next poll after a
\* request error, and raises RuntimeError("MCP server failed to start")
\* when none of the 30 polls answered 200.
C15_StartTerminates ==
    /\ <>ProcEnded
    /\ [](proc.polls <= 30)
    /\ [](proc.response = "200" <=> proc.pc = "returned")
    /\ [][(proc.pc = "poll" /\ proc'.response = "RequestError") =>
             /\ proc'.pc = "sleep"
             /\ proc'.polls = proc.polls + 1
             /\ proc'.exc = NoException]_vars
    /\ []((proc.pc = "raised" /\ proc.polls > 0) =>
             /\ proc.polls = 30
             /\ proc.response # "200"
             /\ proc.exc = Exception("RuntimeError", <<"MCP server failed to start">>))
    /\ []((proc.polls = 30 /\ proc.response # "200") => proc.pc \in {"sleep", "raised"})

\* start() has raised after thirty polls, the last one a request error
C15_Witness ==
    /\ proc.pc = "raised"
    /\ proc.polls = 30
    /\ proc.response = "RequestError"

====
